---- MODULE Spec2Model ----
(***************************************************************************)
(* Connection and call-session lifecycle of the Dialer component           *)
(* (src/src/components/Dialer.tsx).                                        *)
(*                                                                         *)
(* The component state is the React state (status, callState, number) and  *)
(* the two refs (uaRef, activeSessionRef).  The JsSIP engine is the        *)
(* environment: it owns the user agents and sessions the component has     *)
(* created and delivers their events at any later time.  Every handler     *)
(* runs to completion on the single UI thread, so each one is one action.  *)
(* The commands (connect, disconnect, dial, hangup, handleKeypad) may be   *)
(* issued in any state.                                                    *)
(***************************************************************************)
EXTENDS Integers, Sequences, FiniteSets, TLC

\* ---- bounds ----
\* number of user agents connect() may construct in one run
MaxUA == 2
\* number of sessions the engine may announce in one run
MaxSession == 2
\* longest destination string typed on the keypad
MaxNumberLen == 1
\* number of addLog calls replayed against the stored log
MaxAppends == 100

\* ---- program constants ----
\* (prev + digit).slice(0, 32)
NumberCap == 32
\* [message, ...prev].slice(0, 20)
LogCap == 20

Null == 0
UAs == 1..MaxUA
Sessions == 1..MaxSession

ConnectionStatus == {"disconnected", "connecting", "connected", "registered", "registration-failed"}
CallStates == {"idle", "calling", "in-call", "terminated", "failed"}

\* e.cause as delivered by the engine: absent ("") or a reason string
Causes == {"", "Busy"}

VARIABLES
    status,            \* useState<ConnectionStatus>
    callState,         \* useState<CallState>
    number,            \* useState(''): length of the destination string
    uaRef,             \* useRef<JsSIP.UA | null>
    activeSessionRef,  \* useRef<JsSIP.RTCSession | null>
    uaState,           \* engine: per user agent "none" | "started" | "stopped"
    sess,              \* engine: per session [st, dir]
    cause,             \* e.cause of the event the last handler received, "" when it had none
    last,              \* the handler (and the branch of it) that ran last
    logged,            \* the messages that handler passed to addLog, in order
    engineCalls,       \* the engine methods that handler invoked, in order
    callTrace,         \* callState after dial and after each following event of the dialled session
    connTrace,         \* status after connect and after each following event of the new user agent
    logEntries,        \* useState<string[]>: the stored log, followed in SpecLog
    appended           \* the number of addLog calls made against logEntries

vars == <<status, callState, number, uaRef, activeSessionRef, uaState, sess,
          last, cause, logged, engineCalls, callTrace, connTrace, logEntries, appended>>

\* Spec follows the controllers and records in `logged` what each handler
\* passes to addLog; the stored sequence those calls build is followed in
\* SpecLog, which replays addLog calls one by one.
logStore == <<logEntries, appended>>

Min(a, b) == IF a < b THEN a ELSE b

Msg(t, a) == [text |-> t, arg |-> a]
Call(m, h) == [method |-> m, h |-> h]

NoSession == [st |-> "none", dir |-> "none"]
NoTrace == [h |-> Null, before |-> "", evs |-> <<>>, obs |-> <<>>]

\* a message that prints the cause as delivered
CauseTextRaw(c) == c

\* `${e.cause || 'unknown'}`
CauseText(c) == IF c = "" THEN "unknown" ELSE c

isConnected == status = "connected" \/ status = "registered"

FreshUA == CHOOSE u \in UAs : uaState[u] = "none" /\ \A v \in UAs : uaState[v] = "none" => u <= v
FreshSession == CHOOSE s \in Sessions : sess[s].st = "none" /\ \A t \in Sessions : sess[t].st = "none" => s <= t

Init ==
    /\ status = "disconnected"
    /\ callState = "idle"
    /\ number = 0
    /\ uaRef = Null
    /\ activeSessionRef = Null
    /\ uaState = [u \in UAs |-> "none"]
    /\ sess = [s \in Sessions |-> NoSession]
    /\ last = "init"
    /\ cause = ""
    /\ logged = <<>>
    /\ engineCalls = <<>>
    /\ callTrace = NoTrace
    /\ connTrace = NoTrace
    /\ logEntries = <<>>
    /\ appended = 0

\* ---- observation of the two scenarios ----
\* connect, then 'connected', then 'registered' of the new user agent
ConnScenario == <<"connect", "connected", "registered">>
\* dial, then 'progress', 'confirmed', 'ended' of the dialled session
CallScenario == <<"dial", "progress", "confirmed", "ended">>

\* the value seen after the scenario's next step; any other command or event
\* ends the observation
Extend(tr, h, ev, value, scenario) ==
    IF tr.h = h /\ h # Null /\ Len(tr.evs) < Len(scenario) /\ scenario[Len(tr.evs) + 1] = ev
    THEN [tr EXCEPT !.evs = Append(tr.evs, ev), !.obs = Append(tr.obs, value)]
    ELSE NoTrace

Start(h, ev, before, value) == [h |-> h, before |-> before, evs |-> <<ev>>, obs |-> <<value>>]

\* ---- connect ----
\* a validation that forgets the password
CredentialsMissingNoPassword(wsUri, sipUri, password) == ~wsUri \/ ~sipUri

\* line 49: if (!wsUri || !sipUri || !password)
CredentialsMissing(wsUri, sipUri, password) == ~wsUri \/ ~sipUri \/ ~password

\* lines 49-52: the form is incomplete
connectInvalid(wsUri, sipUri, password) ==
    /\ CredentialsMissing(wsUri, sipUri, password)
    /\ logged' = <<Msg("Please provide WebSocket URL, SIP URI, and password.", "")>>
    /\ engineCalls' = <<>>
    /\ last' = "connect-invalid"
    /\ cause' = ""
    /\ callTrace' = NoTrace
    /\ connTrace' = NoTrace
    /\ UNCHANGED logStore
    /\ UNCHANGED <<status, callState, number, uaRef, activeSessionRef, uaState, sess>>

\* a catch block that only logs
StatusOnThrowKept == status

\* line 113: setStatus('disconnected')
StatusOnThrow == "disconnected"

\* lines 54-62, 111-114: new WebSocketInterface / new UA throws
connectThrows(wsUri, sipUri, password) ==
    /\ ~CredentialsMissing(wsUri, sipUri, password)
    /\ status' = StatusOnThrow
    /\ logged' = <<Msg("Connection error: ", "Error")>>
    /\ engineCalls' = <<Call("new UA", Null)>>
    /\ last' = "connect-throws"
    /\ cause' = ""
    /\ callTrace' = NoTrace
    /\ connTrace' = NoTrace
    /\ UNCHANGED logStore
    /\ UNCHANGED <<callState, number, uaRef, activeSessionRef, uaState, sess>>

\* lines 54-110: the user agent is built, subscribed, started and stored
connectStarts(wsUri, sipUri, password) ==
    /\ ~CredentialsMissing(wsUri, sipUri, password)
    /\ \E u \in UAs : uaState[u] = "none"
    /\ LET ua == FreshUA IN
        /\ uaState' = [uaState EXCEPT ![ua] = "started"]
        /\ uaRef' = ua
        /\ status' = "connecting"
        /\ logged' = <<Msg("Connecting...", "")>>
        /\ engineCalls' = <<Call("new UA", ua), Call("start", ua)>>
        /\ last' = "connect"
        /\ cause' = ""
        /\ connTrace' = Start(ua, "connect", "", status')
        /\ UNCHANGED logStore
    /\ callTrace' = NoTrace
    /\ UNCHANGED <<callState, number, activeSessionRef, sess>>

\* lines 20-23: the form as filled in (is each field non-empty); complete, or
\* one of the three required fields left empty
Forms == {<<TRUE, TRUE, TRUE>>, <<FALSE, TRUE, TRUE>>, <<TRUE, FALSE, TRUE>>, <<TRUE, TRUE, FALSE>>}

\* lines 48-115
connectWith(wsUri, sipUri, password) ==
    \/ connectInvalid(wsUri, sipUri, password)
    \/ connectThrows(wsUri, sipUri, password)
    \/ connectStarts(wsUri, sipUri, password)

connect == \E form \in Forms : connectWith(form[1], form[2], form[3])

\* ---- disconnect ----
\* line 118: activeSessionRef.current?.terminate()
TerminateCalls == IF activeSessionRef # Null THEN <<Call("terminate", activeSessionRef)>> ELSE <<>>
\* line 119: uaRef.current?.stop()
StopCalls == IF uaRef # Null THEN <<Call("stop", uaRef)>> ELSE <<>>

\* lines 117-123
disconnect ==
    /\ engineCalls' = TerminateCalls \o StopCalls
    /\ uaState' = IF uaRef # Null THEN [uaState EXCEPT ![uaRef] = "stopped"] ELSE uaState
    /\ status' = "disconnected"
    /\ callState' = "terminated"
    /\ logged' = <<Msg("Disconnected from server.", "")>>
    /\ last' = "disconnect"
    /\ cause' = ""
    /\ callTrace' = NoTrace
    /\ connTrace' = NoTrace
    /\ UNCHANGED logStore
    /\ UNCHANGED <<number, uaRef, activeSessionRef, sess>>

\* ---- dial ----
\* a dial that checks only the ref, not the connection state
DialOfflineRefOnly == uaRef = Null

\* line 126: if (!uaRef.current || !isConnected)
DialOffline == uaRef = Null \/ ~isConnected

\* a newRTCSession handler that keeps the session it already holds
AdoptedKeepsHeld(session) == activeSessionRef

\* line 92: activeSessionRef.current = session
Adopted(session) == session

\* lines 126-129
dialOffline ==
    /\ DialOffline
    /\ logged' = <<Msg("Connect to the SIP server first.", "")>>
    /\ engineCalls' = <<>>
    /\ last' = "dial-offline"
    /\ cause' = ""
    /\ callTrace' = NoTrace
    /\ connTrace' = NoTrace
    /\ UNCHANGED logStore
    /\ UNCHANGED <<status, callState, number, uaRef, activeSessionRef, uaState, sess>>

\* lines 131-134: if (!number)
dialNoNumber ==
    /\ ~DialOffline
    /\ number = 0
    /\ logged' = <<Msg("Enter a destination number.", "")>>
    /\ engineCalls' = <<>>
    /\ last' = "dial-no-number"
    /\ cause' = ""
    /\ callTrace' = NoTrace
    /\ connTrace' = NoTrace
    /\ UNCHANGED logStore
    /\ UNCHANGED <<status, callState, number, uaRef, activeSessionRef, uaState, sess>>

\* lines 136-156: uaRef.current.call(number, options).  The engine creates the
\* session with dial's eventHandlers attached and announces it with
\* newRTCSession before call() returns, so the handler of lines 90-105 stores
\* it in activeSessionRef and attaches its own handlers.
dialCalls ==
    /\ ~DialOffline
    /\ number # 0
    /\ \E s \in Sessions : sess[s].st = "none"
    /\ UNCHANGED <<status, callState, number, uaRef, uaState>>
    /\ LET session == FreshSession IN
        /\ sess' = [sess EXCEPT ![session] = [st |-> "early", dir |-> "out"]]
        /\ activeSessionRef' = Adopted(session)
        /\ engineCalls' = <<Call("call", uaRef)>>
        /\ last' = "dial"
        /\ cause' = ""
        /\ callTrace' = Start(session, "dial", callState, callState')
    /\ logged' = <<Msg("Dialing ", number)>>
    /\ connTrace' = NoTrace
    /\ UNCHANGED logStore

dial == dialOffline \/ dialNoNumber \/ dialCalls

\* ---- hangup ----
\* line 160: if (!activeSessionRef.current) return
hangupIdle ==
    /\ activeSessionRef = Null
    /\ logged' = <<>>
    /\ engineCalls' = <<>>
    /\ last' = "hangup-idle"
    /\ cause' = ""
    /\ callTrace' = NoTrace
    /\ connTrace' = NoTrace
    /\ UNCHANGED logStore
    /\ UNCHANGED <<status, callState, number, uaRef, activeSessionRef, uaState, sess>>

\* lines 161-163
hangupActive ==
    /\ activeSessionRef # Null
    /\ engineCalls' = <<Call("terminate", activeSessionRef)>>
    /\ callState' = "terminated"
    /\ logged' = <<Msg("Call terminated.", "")>>
    /\ last' = "hangup"
    /\ cause' = ""
    /\ callTrace' = NoTrace
    /\ connTrace' = NoTrace
    /\ UNCHANGED logStore
    /\ UNCHANGED <<status, number, uaRef, activeSessionRef, uaState, sess>>

hangup == hangupIdle \/ hangupActive

\* ---- keypad and destination field ----
\* line 167: (prev + digit).slice(0, 32)
AppendDigit(prev) == Min(prev + 1, NumberCap)

\* a keypad that sends tones only while the connection is usable
DtmfCallsWhenOnline ==
    IF activeSessionRef # Null /\ isConnected THEN <<Call("sendDTMF", activeSessionRef)>> ELSE <<>>

\* line 168: activeSessionRef.current?.sendDTMF(digit)
DtmfCalls == IF activeSessionRef # Null THEN <<Call("sendDTMF", activeSessionRef)>> ELSE <<>>

\* lines 166-169
handleKeypad ==
    /\ number < MaxNumberLen
    /\ number' = AppendDigit(number)
    /\ engineCalls' = DtmfCalls
    /\ logged' = <<>>
    /\ last' = "keypad"
    /\ cause' = ""
    /\ callTrace' = NoTrace
    /\ connTrace' = NoTrace
    /\ UNCHANGED logStore
    /\ UNCHANGED <<status, callState, uaRef, activeSessionRef, uaState, sess>>

\* lines 260, 264: the destination field is typed into or cleared
setNumber ==
    /\ \E n \in 0..MaxNumberLen : n # number /\ number' = n
    /\ engineCalls' = <<>>
    /\ logged' = <<>>
    /\ last' = "setNumber"
    /\ cause' = ""
    /\ callTrace' = NoTrace
    /\ connTrace' = NoTrace
    /\ UNCHANGED logStore
    /\ UNCHANGED <<status, callState, uaRef, activeSessionRef, uaState, sess>>

\* ---- user agent events (handlers attached in connect, never detached) ----
\* the engine delivers them for every user agent connect() has started,
\* also after stop() (responses and socket closure still in flight)
Subscribed(ua) == uaState[ua] # "none"

UaEvent(ua, ev, c, msgs) ==
    /\ logged' = msgs
    /\ engineCalls' = <<>>
    /\ last' = ev
    /\ cause' = c
    /\ connTrace' = Extend(connTrace, ua, ev, status', ConnScenario)
    /\ UNCHANGED logStore
    /\ callTrace' = NoTrace
    /\ UNCHANGED <<number, uaRef, activeSessionRef, uaState, sess>>

\* a registered handler that reports the socket state instead
StatusOnRegisteredSlip(ev) ==
    CASE ev = "connected" -> "connected"
      [] ev = "disconnected" -> "disconnected"
      [] ev = "registered" -> "connected"
      [] ev = "unregistered" -> "connected"
      [] ev = "registrationFailed" -> "registration-failed"

\* lines 65, 70, 76, 81, 86: the status each handler sets
StatusOn(ev) ==
    CASE ev = "connected" -> "connected"
      [] ev = "disconnected" -> "disconnected"
      [] ev = "registered" -> "registered"
      [] ev = "unregistered" -> "connected"
      [] ev = "registrationFailed" -> "registration-failed"

\* lines 64-67
onConnected(ua) ==
    /\ Subscribed(ua)
    /\ status' = StatusOn("connected")
    /\ UNCHANGED callState
    /\ UaEvent(ua, "connected", "", <<Msg("Socket connected.", "")>>)

\* a 'disconnected' handler that leaves the call state alone
CallStateOnDownKept == callState

\* line 71: setCallState('terminated')
CallStateOnDown == "terminated"

\* lines 69-73
onDisconnected(ua) ==
    /\ Subscribed(ua)
    /\ status' = StatusOn("disconnected")
    /\ callState' = CallStateOnDown
    /\ UaEvent(ua, "disconnected", "", <<Msg("Socket disconnected.", "")>>)

\* lines 75-78
onRegistered(ua) ==
    /\ Subscribed(ua)
    /\ status' = StatusOn("registered")
    /\ UNCHANGED callState
    /\ UaEvent(ua, "registered", "", <<Msg("Registered with SIP server.", "")>>)

\* lines 80-83
onUnregistered(ua) ==
    /\ Subscribed(ua)
    /\ status' = StatusOn("unregistered")
    /\ UNCHANGED callState
    /\ UaEvent(ua, "unregistered", "", <<Msg("Unregistered.", "")>>)

\* lines 85-88
onRegistrationFailed(ua, c) ==
    /\ Subscribed(ua)
    /\ status' = StatusOn("registrationFailed")
    /\ UNCHANGED callState
    /\ UaEvent(ua, "registrationFailed", c, <<Msg("Registration failed: ", CauseText(c))>>)

\* lines 90-105: an inbound session is announced by a running user agent
onNewRTCSession(ua) ==
    /\ uaState[ua] = "started"
    /\ \E s \in Sessions : sess[s].st = "none"
    /\ LET session == FreshSession IN
        /\ sess' = [sess EXCEPT ![session] = [st |-> "early", dir |-> "in"]]
        /\ activeSessionRef' = Adopted(session)
        /\ last' = "newRTCSession"
        /\ cause' = ""
    /\ logged' = <<>>
    /\ engineCalls' = <<>>
    /\ callTrace' = NoTrace
    /\ connTrace' = NoTrace
    /\ UNCHANGED logStore
    /\ UNCHANGED <<status, callState, number, uaRef, uaState>>

\* ---- session events ----
\* lines 136-144: dial's eventHandlers log only a failure
DialHandlerLog(ev, c) == IF ev = "failed" THEN <<Msg("Call failed: ", CauseText(c))>> ELSE <<>>

\* lines 94-104: updateState logs every event
UpdateStateLog(ev, c) ==
    CASE ev = "progress" -> <<Msg("Call in progress...", "")>>
      [] ev = "confirmed" -> <<Msg("Call confirmed.", "")>>
      [] ev = "ended" -> <<Msg("Call ended.", "")>>
      [] ev = "failed" -> <<Msg("Call failed: ", CauseText(c))>>

\* an outbound session carries both sets of handlers, an inbound one only updateState's
SessionLog(dir, ev, c) == (IF dir = "out" THEN DialHandlerLog(ev, c) ELSE <<>>) \o UpdateStateLog(ev, c)

SessionEvent(session, ev, c, st) ==
    /\ sess' = [sess EXCEPT ![session].st = st]
    /\ logged' = SessionLog(sess[session].dir, ev, c)
    /\ engineCalls' = <<>>
    /\ last' = ev
    /\ cause' = c
    /\ callTrace' = Extend(callTrace, session, ev, callState', CallScenario)
    /\ connTrace' = NoTrace
    /\ UNCHANGED logStore
    /\ UNCHANGED <<status, number, uaRef, activeSessionRef, uaState>>

\* a progress handler that already reports the call as answered
StateOnProgressSlip(ev) ==
    CASE ev = "progress" -> "in-call"
      [] ev = "confirmed" -> "in-call"
      [] ev = "ended" -> "terminated"
      [] ev = "failed" -> "failed"

\* an ended handler that resets the call state for the next call
StateOnEndedIdle(ev) ==
    CASE ev = "progress" -> "calling"
      [] ev = "confirmed" -> "in-call"
      [] ev = "ended" -> "idle"
      [] ev = "failed" -> "failed"

\* lines 99-103, 137-143: the call state each session handler sets
StateOn(ev) ==
    CASE ev = "progress" -> "calling"
      [] ev = "confirmed" -> "in-call"
      [] ev = "ended" -> "terminated"
      [] ev = "failed" -> "failed"

\* lines 99, 137
onProgress(session) ==
    /\ sess[session].st = "early"
    /\ callState' = StateOn("progress")
    /\ SessionEvent(session, "progress", "", "early")

\* lines 100, 142
onConfirmed(session) ==
    /\ sess[session].st = "early"
    /\ callState' = StateOn("confirmed")
    /\ SessionEvent(session, "confirmed", "", "established")

\* lines 101, 143
onEnded(session) ==
    /\ sess[session].st = "established"
    /\ callState' = StateOn("ended")
    /\ SessionEvent(session, "ended", "", "done")

\* lines 102-104, 138-141
onFailed(session, c) ==
    /\ sess[session].st = "early"
    /\ callState' = StateOn("failed")
    /\ SessionEvent(session, "failed", c, "done")

Next ==
    \/ connect
    \/ disconnect
    \/ dial
    \/ hangup
    \/ handleKeypad
    \/ setNumber
    \/ \E ua \in UAs : onConnected(ua)
    \/ \E ua \in UAs : onDisconnected(ua)
    \/ \E ua \in UAs : onRegistered(ua)
    \/ \E ua \in UAs : onUnregistered(ua)
    \/ \E ua \in UAs, c \in Causes : onRegistrationFailed(ua, c)
    \/ \E ua \in UAs : onNewRTCSession(ua)
    \/ \E session \in Sessions : onProgress(session)
    \/ \E session \in Sessions : onConfirmed(session)
    \/ \E session \in Sessions : onEnded(session)
    \/ \E session \in Sessions, c \in Causes : onFailed(session, c)

Spec == Init /\ [][Next]_vars

\* ---- the stored log ----
\* a log that appends at the end and keeps the first LogCap entries
addLogAtEnd(prev, message) == SubSeq(prev \o <<message>>, 1, Min(Len(prev) + 1, LogCap))

\* lines 32-34: [message, ...prev].slice(0, 20)
addLog(prev, message) == SubSeq(<<message>> \o prev, 1, Min(Len(prev) + 1, LogCap))

\* the k-th message passed to addLog; the log never inspects a message, so
\* messages that are all different show every reordering, loss or rewrite
NthMessage(k) == Msg("message", k)

\* some handler calls addLog
appendLog ==
    /\ appended < MaxAppends
    /\ appended' = appended + 1
    /\ logEntries' = addLog(logEntries, NthMessage(appended'))
    /\ UNCHANGED <<status, callState, number, uaRef, activeSessionRef, uaState, sess,
                   last, cause, logged, engineCalls, callTrace, connTrace>>

NextLog == appendLog

SpecLog == Init /\ [][NextLog]_vars

\* ======================= the claims =======================

\* the call states from which a new call may start
Startable == {"idle", "terminated", "failed"}

SessionEventOf(s) ==
    onProgress(s) \/ onConfirmed(s) \/ onEnded(s) \/ \E c \in Causes : onFailed(s, c)

\* up, registered, unregistered, registration-failed
TransportEventOf(ua) ==
    onConnected(ua) \/ onRegistered(ua) \/ onUnregistered(ua) \/ \E c \in Causes : onRegistrationFailed(ua, c)

\* C1: right after disconnect() the status is `disconnected` and no session
\* handle is held.
C1_DisconnectReleasesSession ==
    last = "disconnect" => status = "disconnected" /\ activeSessionRef = Null

\* C2: a newRTCSession event that arrives while the held session has neither
\* ended nor failed leaves the held handle in place.
C2_IncomingRefusedWhileBusy ==
    [][(/\ \E ua \in UAs : onNewRTCSession(ua)
        /\ activeSessionRef # Null
        /\ sess[activeSessionRef].st \in {"early", "established"})
       => activeSessionRef' = activeSessionRef]_vars

\* C3: dial while the call state is `calling` or `in-call` is rejected: no
\* engine call, held session and call state unchanged, one log entry.
C3_DialRejectedWhileInCall ==
    [][dial /\ callState \in {"calling", "in-call"}
       => /\ engineCalls' = <<>>
          /\ UNCHANGED <<activeSessionRef, callState, sess>>
          /\ Len(logged') = 1]_vars

C5_DialOfflineIsLocal ==
    [][dial /\ ~isConnected
       => /\ engineCalls' = <<>>
          /\ Len(logged') = 1
          /\ UNCHANGED <<status, callState, activeSessionRef, sess, uaState>>]_vars

\* dial after disconnect(), the stopped user agent still referenced
C5_Witness ==
    /\ last = "dial-offline"
    /\ status = "disconnected"
    /\ uaRef # Null
    /\ uaState[uaRef] = "stopped"
    /\ Len(logged) = 1
    /\ engineCalls = <<>>

C7_TerminalEventReleases ==
    [][\A s \in Sessions :
          (onEnded(s) \/ \E c \in Causes : onFailed(s, c)) /\ activeSessionRef = s
              => activeSessionRef' = Null]_vars

\* C8: an event of a session that is not the held one changes neither the call
\* state nor the held handle.
C8_StaleSessionEventIgnored ==
    [][\A s \in Sessions :
          SessionEventOf(s) /\ activeSessionRef # s
              => UNCHANGED <<callState, activeSessionRef>>]_vars

\* C9: up, registered, unregistered and registration-failed of a stopped or
\* superseded user agent do not change the status.
C9_StaleTransportEventIgnored ==
    [][\A ua \in UAs :
          TransportEventOf(ua) /\ (uaState[ua] = "stopped" \/ ua # uaRef)
              => UNCHANGED status]_vars

\* C10: connect, then up, then registered of the new user agent shows the
\* statuses connecting, connected, registered; up sets connected, registered
\* sets registered, unregistered sets connected, none changes the call state.
C10_ConnectScenario ==
    [][/\ connTrace'.evs = ConnScenario
            => connTrace'.obs = <<"connecting", "connected", "registered">>
       /\ \A ua \in UAs :
            /\ onConnected(ua) => status' = "connected" /\ UNCHANGED callState
            /\ onRegistered(ua) => status' = "registered" /\ UNCHANGED callState
            /\ onUnregistered(ua) => status' = "connected" /\ UNCHANGED callState]_vars

C10_Witness ==
    /\ connTrace.evs = ConnScenario
    /\ status = "registered"
    /\ last = "registered"


\* C11: the stored log never holds more than 20 entries; after N appends it is
\* the last min(N, 20) messages appended, newest first, each entry as it was
\* appended.
C11_LogKeepsNewestTwenty ==
    /\ Len(logEntries) = Min(appended, 20)
    /\ \A i \in 1..Len(logEntries) : logEntries[i] = NthMessage(appended - i + 1)

\* 25 appends: messages 25 down to 6
C11_Witness ==
    /\ appended = 25
    /\ Len(logEntries) = 20
    /\ logEntries[1] = NthMessage(25)
    /\ logEntries[20] = NthMessage(6)


\* C12: connect with the WebSocket URL, the SIP URI or the password empty makes
\* no engine call, leaves status, call state and both handles as they were and
\* logs a message.
C12_ConnectValidatesLocally ==
    [][\A form \in Forms :
          connectWith(form[1], form[2], form[3]) /\ (~form[1] \/ ~form[2] \/ ~form[3])
              => /\ engineCalls' = <<>>
                 /\ UNCHANGED <<status, callState, uaRef, activeSessionRef, uaState, sess>>
                 /\ Len(logged') = 1]_vars

\* an incomplete form submitted while a user agent is held and registered
C12_Witness ==
    /\ last = "connect-invalid"
    /\ status = "registered"
    /\ uaRef # Null
    /\ Len(logged) = 1
    /\ engineCalls = <<>>


\* C13: the engine's 'disconnected' event sets the status to `disconnected`
\* and the call state to `terminated`, whatever they were.
C13_TransportDownTerminates ==
    [][\A ua \in UAs :
          onDisconnected(ua) => status' = "disconnected" /\ callState' = "terminated"]_vars

\* the transport drops under an established call
C13_Witness ==
    /\ last = "disconnected"
    /\ status = "disconnected"
    /\ callState = "terminated"
    /\ activeSessionRef # Null
    /\ sess[activeSessionRef].st = "established"


\* C14: hangup with no session held does nothing; with a session held it asks
\* the engine to terminate it, sets the call state to `terminated`, logs once
\* and releases the handle, so that a hangup directly after a hangup makes no
\* engine call.
C14_HangupReleasesOnce ==
    [][/\ hangup /\ activeSessionRef = Null
            => /\ engineCalls' = <<>>
               /\ logged' = <<>>
               /\ UNCHANGED <<status, callState, uaRef, activeSessionRef, uaState, sess>>
       /\ hangup /\ activeSessionRef # Null
            => /\ engineCalls' = <<Call("terminate", activeSessionRef)>>
               /\ callState' = "terminated"
               /\ Len(logged') = 1
               /\ activeSessionRef' = Null
       /\ hangup /\ last = "hangup" => engineCalls' = <<>>]_vars


\* C15 (as stated): a keypad digit reaches the engine only when a session is
\* held and the status is `connected` or `registered`; with no session held no
\* engine call is made; call state, status and the held session never change.
C15_DigitNeedsUsableConnection ==
    [][handleKeypad
       => /\ engineCalls' # <<>> => activeSessionRef # Null /\ isConnected
          /\ activeSessionRef = Null => engineCalls' = <<>>
          /\ UNCHANGED <<callState, status, activeSessionRef>>]_vars

\* C15 (amended): a keypad digit is sent to the held session whenever one is
\* held, whatever the status; with no session held no engine call is made;
\* call state, status and the held session never change.
C15_DigitFollowsHeldSession ==
    [][handleKeypad
       => /\ activeSessionRef # Null => engineCalls' = <<Call("sendDTMF", activeSessionRef)>>
          /\ activeSessionRef = Null => engineCalls' = <<>>
          /\ UNCHANGED <<callState, status, activeSessionRef>>]_vars

\* a digit sent into an established call after registration was lost
C15_Witness ==
    /\ last = "keypad"
    /\ status = "registration-failed"
    /\ activeSessionRef # Null
    /\ sess[activeSessionRef].st = "established"
    /\ engineCalls = <<Call("sendDTMF", activeSessionRef)>>


\* C16: a registrationFailed event sets the status to `registration-failed`
\* and logs one entry carrying the reason, "unknown" when the engine gives
\* none; a session's failed event logs its reason with the same default.
C16_FailureReasonDefaultsToUnknown ==
    /\ last = "registrationFailed"
        => /\ status = "registration-failed"
           /\ logged = <<Msg("Registration failed: ", IF cause = "" THEN "unknown" ELSE cause)>>
    /\ last = "failed"
        => /\ logged # <<>>
           /\ \A i \in 1..Len(logged) :
                logged[i] = Msg("Call failed: ", IF cause = "" THEN "unknown" ELSE cause)

\* a registration failure for which the engine gave no reason
C16_Witness ==
    /\ last = "registrationFailed"
    /\ cause = ""
    /\ status = "registration-failed"
    /\ logged = <<Msg("Registration failed: ", "unknown")>>


\* C17: when building the user agent throws inside connect, the handler
\* completes, logs the error message, stores and starts no user agent, and the
\* status is `disconnected` afterwards.
C17_ConstructionErrorAbsorbed ==
    [][\A form \in Forms :
          connectThrows(form[1], form[2], form[3])
              => /\ status' = "disconnected"
                 /\ logged' = <<Msg("Connection error: ", "Error")>>
                 /\ UNCHANGED <<uaRef, uaState, callState, activeSessionRef>>
                 /\ \A i \in 1..Len(engineCalls') : engineCalls'[i].method # "start"]_vars

\* the constructor throws while an earlier user agent is held and registered
C17_Witness ==
    /\ last = "connect-throws"
    /\ status = "disconnected"
    /\ uaRef # Null
    /\ uaState[uaRef] = "started"
    /\ connTrace = NoTrace
    /\ logged = <<Msg("Connection error: ", "Error")>>

\* C18: at most one user agent is started and not stopped at any time.
C18_SingleLiveTransport ==
    Cardinality({ua \in UAs : uaState[ua] = "started"}) <= 1


\* C19: no command and no event sets the call state to `idle`: once it is not
\* idle it is never idle again; disconnect and the engine's 'disconnected'
\* event set it to `terminated`, also from idle.
C19_IdleOnlyInitially ==
    [][/\ callState # "idle" => callState' # "idle"
       /\ (disconnect \/ \E ua \in UAs : onDisconnected(ua)) => callState' = "terminated"]_vars

\* a finished call: the state is terminated, not idle, and stays so
C19_Witness ==
    /\ last = "ended"
    /\ callState = "terminated"
    /\ activeSessionRef # Null
    /\ sess[activeSessionRef].st = "done"

\* C20: a status other than `disconnected` implies a user agent is held; a call
\* state of calling, in-call or failed implies a session is held; and every
\* user agent or session whose events can arrive has been stored in its ref.
C20_StatesNeedStoredHandles ==
    /\ status # "disconnected" => uaRef # Null
    /\ callState \in {"calling", "in-call", "failed"} => activeSessionRef # Null
    /\ \A ua \in UAs : Subscribed(ua) => uaRef # Null /\ ua <= uaRef
    /\ \A s \in Sessions : sess[s].st # "none" => activeSessionRef # Null /\ s <= activeSessionRef

C20_Witness ==
    /\ last = "confirmed"
    /\ status = "registered"
    /\ callState = "in-call"
    /\ uaRef # Null
    /\ activeSessionRef # Null

====
